---- MODULE Spec2Model ----
(***************************************************************************)
(* Model of the photo-portfolio client (iaparraguez/Pagina-Fotos).         *)
(*                                                                         *)
(* The repository holds two variants of the same single-page application: *)
(*   "App"  : src/pagina-fotos/src/App.jsx                                 *)
(*   "Part" : src/unnamed/part_000                                         *)
(* Both talk to the same two remote collections (albums, photos) through   *)
(* live subscriptions and one-shot create/delete calls.  One behaviour of  *)
(* the model is one browser session running one of the variants, together  *)
(* with the remote store and the writes of other sessions.                 *)
(***************************************************************************)
EXTENDS Integers, Sequences, FiniteSets, TLC

(***************************************************************************)
(* Bounds of the model.                                                    *)
(***************************************************************************)
MaxAlbums == 2      \* album ids the store can ever assign
MaxPhotos == 2      \* photo ids the store can ever assign
MaxTime == 2        \* distinct timestamp values
MaxStrLen == 1      \* length of the strings typed into a form field
MaxPending == 1     \* undelivered snapshots kept per subscription
MaxOps == 1         \* handler invocations in flight at once
MaxLogouts == 1     \* logouts of one session
MaxTimers == 2      \* notification timers pending at once

AlbumIds == 1..MaxAlbums
PhotoIds == 1..MaxPhotos
Times == 1..MaxTime
OpIds == 1..MaxOps

NoId == 0           \* null / '' : no album or photo selected
NoTime == 0         \* the document has no timestamp field
NoUser == 0         \* null user / null userId

(***************************************************************************)
(* Identifiers a session can hold in userId.                               *)
(***************************************************************************)
RandomUUID == 100   \* crypto.randomUUID() of the sign-in fallback
MockAdminUid == 101 \* 'mock-admin-uid-' + crypto.randomUUID()
TokenUid == 102     \* uid of the user __initial_auth_token names
FirebaseUids == 1..(2 * MaxLogouts + 2)

(***************************************************************************)
(* Strings of the form fields: sequences over a blank and a letter.        *)
(***************************************************************************)
Chars == {" ", "a"}
Strings == UNION {[1..n -> Chars] : n \in 0..MaxStrLen}

RECURSIVE TrimStart(_)
TrimStart(s) ==
    IF s = <<>> THEN <<>>
    ELSE IF Head(s) = " " THEN TrimStart(Tail(s)) ELSE s

RECURSIVE TrimEnd(_)
TrimEnd(s) ==
    IF s = <<>> THEN <<>>
    ELSE IF s[Len(s)] = " " THEN TrimEnd(SubSeq(s, 1, Len(s) - 1)) ELSE s

\* a field read without trim()
TrimNothing(s) == s

\* String.prototype.trim
Trim(s) == TrimEnd(TrimStart(s))

\* JavaScript truthiness of a string: the empty string is falsy
Truthy(s) == s # <<>>

(***************************************************************************)
(* Documents and snapshots of the remote store.                            *)
(***************************************************************************)
AlbumDocs == [id : AlbumIds, ts : {NoTime} \cup Times]
PhotoDocs == [id : PhotoIds, albumId : AlbumIds, ts : {NoTime} \cup Times]

IdsOf(docs) == {d.id : d \in docs}

\* the document of least id in a non-empty set of documents
MinDoc(docs) == CHOOSE d \in docs : \A e \in docs : d.id <= e.id

\* snapshot.docs of a query without orderBy: ascending document id
RECURSIVE SnapshotDocs(_)
SnapshotDocs(docs) ==
    IF docs = {} THEN <<>>
    ELSE <<MinDoc(docs)>> \o SnapshotDocs(docs \ {MinDoc(docs)})

\* where("albumId", "==", albumId)
PhotosOf(docs, albumId) == {d \in docs : d.albumId = albumId}

Range(s) == {s[i] : i \in 1..Len(s)}

\* b.timestamp?.toDate() || 0
TimeOrZero(d) == IF d.ts = NoTime THEN 0 ELSE d.ts

\* (a, b) => (b.timestamp?.toDate() || 0) - (a.timestamp?.toDate() || 0)
CompareDesc(a, b) == TimeOrZero(b) - TimeOrZero(a)

\* insertion of x into a sorted sequence, after every element it does not
\* strictly precede (Array.prototype.sort is stable)
RECURSIVE InsertSorted(_, _)
InsertSorted(x, s) ==
    IF s = <<>> THEN <<x>>
    ELSE IF CompareDesc(Head(s), x) <= 0
         THEN <<Head(s)>> \o InsertSorted(x, Tail(s))
         ELSE <<x>> \o s

RECURSIVE SortWith(_, _)
SortWith(s, acc) ==
    IF s = <<>> THEN acc ELSE SortWith(Tail(s), InsertSorted(Head(s), acc))

\* fetched.sort((a, b) => ...) of part_000
SortByTimestampDesc(s) == SortWith(s, <<>>)

(***************************************************************************)
(* State.                                                                  *)
(***************************************************************************)
VARIABLES
    variant,            \* which of the two source files the session runs
    initialAuthToken,   \* __initial_auth_token: "undefined", "empty", "valid"
    \* identity provider (firebase/auth)
    authUser,           \* auth.currentUser
    authEvents,         \* notifications not yet handed to onAuthStateChanged
    authCb,             \* listener invocations suspended at the sign-in await
    logout,             \* Navbar.handleLogout of part_000
    nextUid,            \* next uid an anonymous sign-in creates
    \* App component
    db,                 \* the Firestore handle is set
    userId,
    authReady,          \* authReady (App.jsx) / isAuthReady (part_000)
    isLoading,
    isAdmin,
    adminUID,           \* localStorage 'louisPhotoAdminUID'
    notification,
    timers,             \* pending setTimeout calls of showNotification
    currentPage,
    selectedAlbumId,
    \* in-memory lists
    albums,
    photos,
    album,              \* AlbumDetailPage.album of part_000
    \* AlbumPage of App.jsx
    lightboxOpen,
    currentImageIndex,
    \* live subscriptions
    albumsSub,
    photosSub,
    albumSub,
    \* admin panel
    selectedAlbumForPhoto,
    isSubmittingAlbum,
    isSubmittingPhoto,
    isDeleting,
    message,            \* AdminPage.message of part_000
    ops,                \* handler invocations in flight
    \* remote document store
    storeAlbums,
    storePhotos,
    usedAlbumIds,
    usedPhotoIds,
    clock               \* current time of the clocks that stamp documents

authVars == <<authUser, authEvents, authCb, logout, nextUid>>
appVars == <<db, userId, authReady, isLoading, isAdmin, adminUID, notification,
             timers, currentPage, selectedAlbumId>>
listVars == <<albums, photos, album>>
lightboxVars == <<lightboxOpen, currentImageIndex>>
subVars == <<albumsSub, photosSub, albumSub>>
adminVars == <<selectedAlbumForPhoto, isSubmittingAlbum, isSubmittingPhoto,
               isDeleting, message, ops>>
storeVars == <<storeAlbums, storePhotos, usedAlbumIds, usedPhotoIds, clock>>
vars == <<variant, initialAuthToken, authVars, appVars, listVars, lightboxVars,
          subVars, adminVars, storeVars>>

NoAlbum == [id |-> NoId, ts |-> NoTime]
NoNotification == [message |-> "", type |-> ""]
\* a cancellation that leaves the listener attached
NoSubStillLive == [status |-> "live", key |-> NoId, queue |-> <<>>]

\* the state of a subscription after unsubscribe(), and before onSnapshot
NoSub == [status |-> "none", key |-> NoId, queue |-> <<>>]
IdleOp == [kind |-> "none", pc |-> "idle", target |-> NoId, name |-> <<>>,
           url |-> <<>>, ts |-> NoTime, found |-> {}, issued |-> <<>>,
           pending |-> <<>>, failed |-> FALSE, albumDeleteIssued |-> FALSE,
           outcome |-> "none", detached |-> FALSE]

Min(a, b) == IF a < b THEN a ELSE b

AppPages == {"home", "albums", "album_detail", "about", "admin_login",
             "admin_panel"}
PartPages == {"home", "gallery", "albumDetail", "about", "contact", "admin"}

(***************************************************************************)
(* Subscriptions.  A live subscription holds the snapshots the store has   *)
(* pushed and the callback has not yet run on; past MaxPending the newest  *)
(* snapshot replaces the last undelivered one.                             *)
(***************************************************************************)
\* onSnapshot(ref, callback, errorCallback)
Subscribed(key, snap) == [status |-> "live", key |-> key, queue |-> <<snap>>]

\* a document snapshot that always reports an existing document
DocSnapAlwaysExists(docs, albumId) ==
    IF albumId \in IdsOf(docs)
    THEN CHOOSE d \in docs : d.id = albumId
    ELSE [id |-> albumId, ts |-> NoTime]

\* docSnap of doc(db, albums, albumId): the document, or one that does not exist
DocSnap(docs, albumId) ==
    IF albumId \in IdsOf(docs)
    THEN CHOOSE d \in docs : d.id = albumId
    ELSE NoAlbum

\* a listener that drops the newest snapshot when one is already pending
EnqueueKeepsOldest(sub, snap) ==
    [sub EXCEPT !.queue = IF Len(@) < MaxPending THEN Append(@, snap) ELSE @]

Enqueue(sub, snap) ==
    [sub EXCEPT !.queue =
        IF Len(@) < MaxPending THEN Append(@, snap)
        ELSE Append(SubSeq(@, 1, Len(@) - 1), snap)]

\* the photos a photo subscription of the given key matches
PhotosMatching(docs, key) == IF key = NoId THEN docs ELSE PhotosOf(docs, key)

\* the store commits a write and pushes a snapshot to every live subscription
\* whose result the write changed
StoreWrite(newAlbums, newPhotos) ==
    /\ storeAlbums' = newAlbums
    /\ storePhotos' = newPhotos
    /\ albumsSub' =
        IF albumsSub.status = "live" /\ newAlbums # storeAlbums
        THEN Enqueue(albumsSub, SnapshotDocs(newAlbums))
        ELSE albumsSub
    /\ photosSub' =
        IF /\ photosSub.status = "live"
           /\ PhotosMatching(newPhotos, photosSub.key)
                # PhotosMatching(storePhotos, photosSub.key)
        THEN Enqueue(photosSub,
                     SnapshotDocs(PhotosMatching(newPhotos, photosSub.key)))
        ELSE photosSub
    /\ albumSub' =
        IF /\ albumSub.status = "live"
           /\ DocSnap(newAlbums, albumSub.key) # DocSnap(storeAlbums, albumSub.key)
        THEN Enqueue(albumSub, DocSnap(newAlbums, albumSub.key))
        ELSE albumSub

(***************************************************************************)
(* showNotification of App.jsx and its timer.                              *)
(***************************************************************************)
ShowNotification(msg, type) ==
    /\ notification' = [message |-> msg, type |-> type]
    /\ timers' = Min(timers + 1, MaxTimers)

\* the setTimeout callback of showNotification
NotificationTimeout ==
    /\ timers > 0
    /\ timers' = timers - 1
    /\ notification' = NoNotification
    /\ UNCHANGED <<variant, lightboxVars, initialAuthToken, authVars, db, userId, authReady,
                   isLoading, isAdmin, adminUID, currentPage, selectedAlbumId,
                   listVars, subVars, adminVars, storeVars>>

(***************************************************************************)
(* Mounting and unmounting of the views.                                   *)
(***************************************************************************)
\* the handlers of an unmounted admin panel keep running, but their state
\* setters no longer reach a mounted component
Detached(o) ==
    [i \in OpIds |-> IF o[i].pc \in {"idle", "done"} THEN o[i]
                     ELSE [o[i] EXCEPT !.detached = TRUE]]

\* effects of the page of part_000 that mounts: HomePage, GalleryPage,
\* AlbumDetailPage and AdminPage
PartAlbumsSub(page, hasDb) ==
    IF hasDb /\ page \in {"home", "gallery", "admin"}
    THEN Subscribed(NoId, SnapshotDocs(storeAlbums))
    ELSE NoSub

\* a page change that leaves the photos subscription of the old page open
PartPhotosSubKept(page, albumId, hasDb) ==
    IF hasDb /\ page = "admin"
    THEN Subscribed(NoId, SnapshotDocs(storePhotos))
    ELSE IF hasDb /\ page = "albumDetail" /\ albumId # NoId
         THEN Subscribed(albumId, SnapshotDocs(PhotosOf(storePhotos, albumId)))
         ELSE photosSub

PartPhotosSub(page, albumId, hasDb) ==
    IF hasDb /\ page = "admin"
    THEN Subscribed(NoId, SnapshotDocs(storePhotos))
    ELSE IF hasDb /\ page = "albumDetail" /\ albumId # NoId
         THEN Subscribed(albumId, SnapshotDocs(PhotosOf(storePhotos, albumId)))
         ELSE NoSub

PartAlbumSub(page, albumId, hasDb) ==
    IF hasDb /\ page = "albumDetail" /\ albumId # NoId
    THEN Subscribed(albumId, DocSnap(storeAlbums, albumId))
    ELSE NoSub

\* part_000: the current page is replaced: the old page's cleanups run, its
\* state is dropped, the new page starts from its initial state and its
\* effects subscribe
PartMount(page, albumId, hasDb) ==
    /\ albums' = <<>>
    /\ photos' = <<>>
    /\ album' = NoAlbum
    /\ message' = ""
    /\ selectedAlbumForPhoto' = NoId
    /\ ops' = Detached(ops)
    /\ albumsSub' = PartAlbumsSub(page, hasDb)
    /\ photosSub' = PartPhotosSub(page, albumId, hasDb)
    /\ albumSub' = PartAlbumSub(page, albumId, hasDb)

InitialStores ==
    { [albums |-> {}, photos |-> {}],
      [albums |-> {[id |-> 1, ts |-> 1]},
       photos |-> {[id |-> 1, albumId |-> 1, ts |-> 1]}] }

Init ==
    /\ variant \in {"App", "Part"}
    /\ initialAuthToken \in {"undefined", "empty", "valid"}
    /\ \E st \in InitialStores :
        /\ storeAlbums = st.albums
        /\ storePhotos = st.photos
        /\ usedAlbumIds = IdsOf(st.albums)
        /\ usedPhotoIds = IdsOf(st.photos)
    /\ clock = 1
    \* App.jsx:22-24 run at module load; part_000:28-71 may throw
    /\ db \in IF variant = "App" THEN {TRUE} ELSE BOOLEAN
    /\ authUser \in IF db THEN {NoUser, 1} ELSE {NoUser}
    /\ authEvents = IF db THEN <<authUser>> ELSE <<>>
    /\ nextUid = 2
    /\ authCb = <<>>
    /\ logout = [pc |-> "idle", count |-> 0]
    /\ userId = NoUser
    /\ authReady = ~db
    /\ isLoading = (variant = "App")
    /\ isAdmin = FALSE
    /\ adminUID \in IF variant = "App" THEN {NoUser, MockAdminUid} ELSE {NoUser}
    /\ notification = NoNotification
    /\ timers = 0
    /\ currentPage = "home"
    /\ selectedAlbumId = NoId
    /\ albums = <<>>
    /\ photos = <<>>
    /\ album = NoAlbum
    /\ lightboxOpen = FALSE
    /\ currentImageIndex = 0
    /\ albumsSub = NoSub
    /\ photosSub = NoSub
    /\ albumSub = NoSub
    /\ selectedAlbumForPhoto = NoId
    /\ isSubmittingAlbum = FALSE
    /\ isSubmittingPhoto = FALSE
    /\ isDeleting = NoId
    /\ message = ""
    /\ ops = [i \in OpIds |-> IdleOp]

(***************************************************************************)
(* Rendering and effects of App.jsx.                                       *)
(***************************************************************************)
\* renderContent reaches <AdminPanel>
AppPanelMounted(page, admin, ready) ==
    page = "admin_panel" /\ admin /\ ready

\* renderContent reaches <AlbumPage>; before the session is ready isLoading
\* is still true and renderContent returns the spinner instead
AppAlbumPageMounted(page, ready) ==
    page = "album_detail" /\ ready

\* renderContent, case 'album_detail':
\* albums.find(album => album.id === selectedAlbumId), undefined when absent
CurrentAlbum ==
    IF \E k \in 1..Len(albums) : albums[k].id = selectedAlbumId
    THEN albums[CHOOSE k \in 1..Len(albums) :
                  /\ albums[k].id = selectedAlbumId
                  /\ \A j \in 1..(k - 1) : albums[j].id # selectedAlbumId]
    ELSE NoAlbum

\* a renderContent that shows the requested page to anyone
AppRenderedPageUngated(page, admin, ready) == page

\* renderContent, case 'admin_panel': navigateTo('admin_login') when !isAdmin
AppRenderedPage(page, admin, ready) ==
    IF page = "admin_panel" /\ ~admin /\ ready THEN "admin_login" ELSE page

\* the page shown after a handler left (page, admin, ready); the state of an
\* AdminPanel that unmounts is dropped and its running handlers are detached,
\* and so is the state of an AlbumPage that unmounts
AppRender(page, admin, ready) ==
    LET shown == AppRenderedPage(page, admin, ready)
        remount == AppPanelMounted(currentPage, isAdmin, authReady)
                     # AppPanelMounted(shown, admin, ready)
        albumRemount == AppAlbumPageMounted(currentPage, authReady)
                          # AppAlbumPageMounted(shown, ready)
    IN  /\ currentPage' = shown
        /\ lightboxOpen' = IF albumRemount THEN FALSE ELSE lightboxOpen
        /\ currentImageIndex' = IF albumRemount THEN 0 ELSE currentImageIndex
        /\ selectedAlbumForPhoto' = IF remount THEN NoId ELSE selectedAlbumForPhoto
        /\ isSubmittingAlbum' = IF remount THEN FALSE ELSE isSubmittingAlbum
        /\ isSubmittingPhoto' = IF remount THEN FALSE ELSE isSubmittingPhoto
        /\ isDeleting' = IF remount THEN NoId ELSE isDeleting
        /\ ops' = IF remount THEN Detached(ops) ELSE ops

\* the "Fetch Albums" and "Fetch Photos" effects, re-run when a dependency
\* (authReady, selectedAlbumId) changed; loading is the value the handler
\* left in isLoading
AppEffects(ready, albumId, loading) ==
    LET albumsRun == ready # authReady
        photosRun == ready # authReady \/ albumId # selectedAlbumId
        photosSubscribes == photosRun /\ ready /\ albumId # NoId
    IN  /\ albumsSub' =
            IF ~albumsRun THEN albumsSub
            ELSE IF ready THEN Subscribed(NoId, SnapshotDocs(storeAlbums))
            ELSE NoSub
        /\ photosSub' =
            IF ~photosRun THEN photosSub
            ELSE IF photosSubscribes
            THEN Subscribed(albumId,
                            SnapshotDocs(PhotosOf(storePhotos, albumId)))
            ELSE NoSub
        /\ photos' = IF photosRun /\ ~photosSubscribes THEN <<>> ELSE photos
        /\ isLoading' =
            IF (albumsRun /\ ready) \/ photosSubscribes THEN TRUE ELSE loading
        /\ UNCHANGED <<albums, album, albumSub>>

(***************************************************************************)
(* Identity bootstrap: the onAuthStateChanged listener.                    *)
(***************************************************************************)
\* the sign-in call the listener makes for a null user
SignInMethod ==
    IF variant = "App"
    THEN IF initialAuthToken = "valid" THEN "token" ELSE "anonymous"
    ELSE IF initialAuthToken # "undefined" THEN "token" ELSE "anonymous"

\* the listener runs for a signed-in user
AuthCallbackUser ==
    /\ authEvents # <<>>
    /\ Head(authEvents) # NoUser
    /\ authEvents' = Tail(authEvents)
    /\ userId' = Head(authEvents)
    /\ authReady' = TRUE
    /\ IF variant = "App"
       THEN /\ isAdmin' = (isAdmin \/ Head(authEvents) = adminUID)
            /\ AppEffects(TRUE, selectedAlbumId, FALSE)
            /\ AppRender(currentPage, isAdmin', TRUE)
            /\ UNCHANGED message
       ELSE /\ IF authReady
               THEN UNCHANGED <<listVars, subVars, message,
                                selectedAlbumForPhoto, ops>>
               ELSE PartMount(currentPage, selectedAlbumId, db)
            /\ UNCHANGED <<isAdmin, isLoading, currentPage, isSubmittingAlbum,
                           isSubmittingPhoto, isDeleting, lightboxVars>>
    /\ UNCHANGED <<variant, initialAuthToken, authUser, authCb, logout, nextUid,
                   db, adminUID, notification, timers, selectedAlbumId,
                   storeVars>>

\* the listener runs for no user: it starts a sign-in and suspends
AuthCallbackNoUser ==
    /\ authEvents # <<>>
    /\ Head(authEvents) = NoUser
    /\ authEvents' = Tail(authEvents)
    /\ authCb' = Append(authCb, [pc |-> "signIn", method |-> SignInMethod])
    /\ UNCHANGED <<variant, lightboxVars, initialAuthToken, authUser, logout, nextUid,
                   appVars, listVars, subVars, adminVars, storeVars>>

Remove(s, i) == SubSeq(s, 1, i - 1) \o SubSeq(s, i + 1, Len(s))

\* the identity provider signs a user in and notifies the listener
SignedIn(method) ==
    LET uid == IF method = "token" THEN TokenUid ELSE nextUid
    IN  /\ authUser' = uid
        /\ nextUid' = IF method = "token" THEN nextUid ELSE nextUid + 1
        /\ authEvents' = IF uid # authUser THEN Append(authEvents, uid)
                         ELSE authEvents

\* signInWithCustomToken / signInAnonymously of the listener settles
SignInSettles(i, ok) ==
    /\ i \in 1..Len(authCb)
    /\ authCb[i].pc = "signIn"
    /\ ok => ~(authCb[i].method = "token" /\ initialAuthToken = "empty")
    /\ IF ok
       THEN /\ SignedIn(authCb[i].method)
            /\ authCb' = [authCb EXCEPT ![i].pc = "resumeOk"]
       ELSE /\ authCb' = [authCb EXCEPT ![i].pc = "resumeErr"]
            /\ UNCHANGED <<authUser, nextUid, authEvents>>
    /\ UNCHANGED <<variant, lightboxVars, initialAuthToken, logout, appVars, listVars,
                   subVars, adminVars, storeVars>>

\* a listener that does nothing after its await
AuthCallbackResumesSilent(i) ==
    /\ i \in 1..Len(authCb)
    /\ authCb[i].pc \in {"resumeOk", "resumeErr"}
    /\ authCb' = Remove(authCb, i)
    /\ UNCHANGED <<variant, initialAuthToken, authUser, authEvents, logout,
                   nextUid, appVars, listVars, lightboxVars, subVars,
                   adminVars, storeVars>>

\* the listener resumes after its await
AuthCallbackResumes(i) ==
    /\ i \in 1..Len(authCb)
    /\ authCb[i].pc \in {"resumeOk", "resumeErr"}
    /\ authCb' = Remove(authCb, i)
    /\ IF variant = "App"
       THEN /\ IF authCb[i].pc = "resumeErr"
               THEN ShowNotification("Error signing in", "error")
               ELSE UNCHANGED <<notification, timers>>
            /\ userId' = NoUser
            /\ isAdmin' = FALSE
            /\ authReady' = TRUE
            /\ AppEffects(TRUE, selectedAlbumId, FALSE)
            /\ AppRender(currentPage, FALSE, TRUE)
            /\ UNCHANGED message
       ELSE /\ IF authCb[i].pc = "resumeErr"
               THEN /\ userId' = RandomUUID
                    /\ authReady' = TRUE
                    /\ IF authReady
                       THEN UNCHANGED <<listVars, subVars, message,
                                        selectedAlbumForPhoto, ops>>
                       ELSE PartMount(currentPage, selectedAlbumId, db)
               ELSE UNCHANGED <<userId, authReady, listVars, subVars, message,
                                selectedAlbumForPhoto, ops>>
            /\ UNCHANGED <<isAdmin, isLoading, currentPage, notification,
                           timers, isSubmittingAlbum, isSubmittingPhoto,
                           isDeleting, lightboxVars>>
    /\ UNCHANGED <<variant, initialAuthToken, authUser, authEvents, logout,
                   nextUid, db, adminUID, selectedAlbumId, storeVars>>

(***************************************************************************)
(* Navbar.handleLogout of part_000.                                        *)
(***************************************************************************)
HandleLogout ==
    /\ variant = "Part"
    /\ userId # NoUser
    /\ db
    /\ logout.pc = "idle"
    /\ logout.count < MaxLogouts
    /\ logout' = [pc |-> "signOut", count |-> logout.count + 1]
    /\ UNCHANGED <<variant, lightboxVars, initialAuthToken, authUser, authEvents, authCb,
                   nextUid, appVars, listVars, subVars, adminVars, storeVars>>

\* a sign-out that marks the session as not ready again
SignOutSettlesResetsReady(ok) ==
    /\ logout.pc = "signOut"
    /\ IF ok
       THEN /\ authUser' = NoUser
            /\ authEvents' = IF authUser # NoUser
                             THEN Append(authEvents, NoUser) ELSE authEvents
            /\ logout' = [logout EXCEPT !.pc = "signIn"]
       ELSE /\ logout' = [logout EXCEPT !.pc = "idle"]
            /\ UNCHANGED <<authUser, authEvents>>
    /\ authReady' = ~ok
    /\ UNCHANGED <<variant, lightboxVars, initialAuthToken, authCb, nextUid, db, userId,
                   isLoading, isAdmin, adminUID, notification, timers,
                   currentPage, selectedAlbumId, listVars, subVars, adminVars,
                   storeVars>>

\* auth.signOut() settles; on success signInAnonymously is called
SignOutSettles(ok) ==
    /\ logout.pc = "signOut"
    /\ IF ok
       THEN /\ authUser' = NoUser
            /\ authEvents' = IF authUser # NoUser
                             THEN Append(authEvents, NoUser) ELSE authEvents
            /\ logout' = [logout EXCEPT !.pc = "signIn"]
       ELSE /\ logout' = [logout EXCEPT !.pc = "idle"]
            /\ UNCHANGED <<authUser, authEvents>>
    /\ UNCHANGED <<variant, lightboxVars, initialAuthToken, authCb, nextUid, appVars,
                   listVars, subVars, adminVars, storeVars>>

\* signInAnonymously of handleLogout settles
LogoutSignInSettles(ok) ==
    /\ logout.pc = "signIn"
    /\ logout' = [logout EXCEPT !.pc = "idle"]
    /\ IF ok THEN SignedIn("anonymous")
       ELSE UNCHANGED <<authUser, nextUid, authEvents>>
    /\ UNCHANGED <<variant, lightboxVars, initialAuthToken, authCb, appVars, listVars,
                   subVars, adminVars, storeVars>>

(***************************************************************************)
(* Navigation.                                                             *)
(***************************************************************************)
\* App.jsx navigateTo(page, albumId), from the Navbar, the hero button, an
\* album card of AlbumGallery or the back button of AlbumPage
NavigateTo(page, albumId) ==
    /\ variant = "App"
    /\ \/ page \in {"home", "albums", "about"} /\ albumId = NoId
       \/ page = "admin_panel" /\ isAdmin /\ albumId = NoId
       \/ page = "admin_login" /\ ~isAdmin /\ albumId = NoId
       \/ /\ page = "album_detail"
          /\ authReady /\ ~isLoading
          /\ currentPage \in {"home", "albums"}
          /\ albumId \in IdsOf(Range(albums))
    /\ selectedAlbumId' = albumId
    /\ AppRender(page, isAdmin, authReady)
    /\ AppEffects(authReady, albumId, isLoading)
    /\ UNCHANGED <<variant, initialAuthToken, authVars, db, userId, authReady,
                   isAdmin, adminUID, notification, timers, message, storeVars>>

\* part_000 setCurrentPage(page), from the Navbar and the gallery buttons
SetCurrentPage(page) ==
    /\ variant = "Part"
    /\ page \in {"home", "gallery", "about", "contact", "admin"}
    /\ page # currentPage
    /\ currentPage' = page
    /\ IF authReady
       THEN PartMount(page, selectedAlbumId, db)
       ELSE UNCHANGED <<listVars, subVars, message, selectedAlbumForPhoto, ops>>
    /\ UNCHANGED <<variant, lightboxVars, initialAuthToken, authVars, db, userId, authReady,
                   isLoading, isAdmin, adminUID, notification, timers,
                   selectedAlbumId, isSubmittingAlbum, isSubmittingPhoto,
                   isDeleting, storeVars>>

\* part_000 handleViewAlbum(albumId), from an album thumbnail
HandleViewAlbum(albumId) ==
    /\ variant = "Part"
    /\ authReady
    /\ currentPage \in {"home", "gallery"}
    /\ albumId \in IdsOf(Range(albums))
    /\ selectedAlbumId' = albumId
    /\ currentPage' = "albumDetail"
    /\ PartMount("albumDetail", albumId, db)
    /\ UNCHANGED <<variant, lightboxVars, initialAuthToken, authVars, db, userId, authReady,
                   isLoading, isAdmin, adminUID, notification, timers,
                   isSubmittingAlbum, isSubmittingPhoto, isDeleting, storeVars>>

(***************************************************************************)
(* Snapshot callbacks.                                                     *)
(***************************************************************************)
\* the value of selectedAlbumForPhoto the albums callback of AdminPage closes
\* over: the effect that creates the callback does not depend on
\* selectedAlbumForPhoto, so the callback keeps the value of the first render
CapturedSelectedAlbumForPhoto == NoId

\* a callback that adds the pushed documents to the list it already holds
AlbumsOfSnapshotAppended(snap) ==
    albums \o (IF variant = "App" THEN snap ELSE SortByTimestampDesc(snap))

\* the list a snapshot callback stores
AlbumsOfSnapshot(snap) ==
    IF variant = "App" THEN snap ELSE SortByTimestampDesc(snap)

PhotosOfSnapshot(snap) ==
    IF variant = "App" THEN snap ELSE SortByTimestampDesc(snap)

\* onSnapshot callback of the albums collection
AlbumsSnapshot ==
    /\ albumsSub.status = "live"
    /\ albumsSub.queue # <<>>
    /\ albumsSub' = [albumsSub EXCEPT !.queue = Tail(@)]
    /\ albums' = AlbumsOfSnapshot(Head(albumsSub.queue))
    /\ isLoading' = IF variant = "App" THEN FALSE ELSE isLoading
    /\ selectedAlbumForPhoto' =
        IF /\ variant = "Part"
           /\ currentPage = "admin"
           /\ Len(albums') > 0
           /\ CapturedSelectedAlbumForPhoto = NoId
        THEN albums'[1].id
        ELSE selectedAlbumForPhoto
    /\ UNCHANGED <<variant, lightboxVars, initialAuthToken, authVars, db, userId, authReady,
                   isAdmin, adminUID, notification, timers, currentPage,
                   selectedAlbumId, photos, album, photosSub, albumSub,
                   isSubmittingAlbum, isSubmittingPhoto, isDeleting, message,
                   ops, storeVars>>

\* onSnapshot callback of the photos query
PhotosSnapshot ==
    /\ photosSub.status = "live"
    /\ photosSub.queue # <<>>
    /\ photosSub' = [photosSub EXCEPT !.queue = Tail(@)]
    /\ photos' = PhotosOfSnapshot(Head(photosSub.queue))
    /\ isLoading' = IF variant = "App" THEN FALSE ELSE isLoading
    /\ UNCHANGED <<variant, lightboxVars, initialAuthToken, authVars, db, userId, authReady,
                   isAdmin, adminUID, notification, timers, currentPage,
                   selectedAlbumId, albums, album, albumsSub, albumSub,
                   adminVars, storeVars>>

\* onSnapshot callback of the album document (AlbumDetailPage of part_000)
AlbumSnapshot ==
    /\ albumSub.status = "live"
    /\ albumSub.queue # <<>>
    /\ IF Head(albumSub.queue) # NoAlbum
       THEN /\ album' = Head(albumSub.queue)
            /\ albumSub' = [albumSub EXCEPT !.queue = Tail(@)]
            /\ UNCHANGED <<currentPage, albums, photos, albumsSub, photosSub,
                           message, selectedAlbumForPhoto, ops>>
       ELSE \* setAlbum(null); setCurrentPage('gallery')
            /\ currentPage' = "gallery"
            /\ PartMount("gallery", selectedAlbumId, db)
    /\ UNCHANGED <<variant, lightboxVars, initialAuthToken, authVars, db, userId, authReady,
                   isLoading, isAdmin, adminUID, notification, timers,
                   selectedAlbumId, isSubmittingAlbum, isSubmittingPhoto,
                   isDeleting, storeVars>>

(***************************************************************************)
(* Error callbacks of the subscriptions: the store ends a listener with an *)
(* error (permission denied, unavailable) and sends it nothing more.       *)
(***************************************************************************)
\* error callback of the albums subscription
AlbumsError ==
    /\ albumsSub.status = "live"
    /\ albumsSub' = NoSub
    /\ IF variant = "App"
       THEN /\ ShowNotification("Error fetching albums", "error")
            /\ isLoading' = FALSE
       ELSE UNCHANGED <<notification, timers, isLoading>>
    /\ UNCHANGED <<variant, lightboxVars, initialAuthToken, authVars, db, userId, authReady,
                   isAdmin, adminUID, currentPage, selectedAlbumId, listVars,
                   photosSub, albumSub, adminVars, storeVars>>

\* error callback of the photos subscription
PhotosError ==
    /\ photosSub.status = "live"
    /\ photosSub' = NoSub
    /\ IF variant = "App"
       THEN /\ ShowNotification("Error fetching photos", "error")
            /\ isLoading' = FALSE
       ELSE UNCHANGED <<notification, timers, isLoading>>
    /\ UNCHANGED <<variant, lightboxVars, initialAuthToken, authVars, db, userId, authReady,
                   isAdmin, adminUID, currentPage, selectedAlbumId, listVars,
                   albumsSub, albumSub, adminVars, storeVars>>

\* error callback of the album document subscription (part_000)
AlbumError ==
    /\ albumSub.status = "live"
    /\ albumSub' = NoSub
    /\ UNCHANGED <<variant, lightboxVars, initialAuthToken, authVars, appVars, listVars,
                   albumsSub, photosSub, adminVars, storeVars>>

(***************************************************************************)
(* Lightbox of AlbumPage (App.jsx).                                        *)
(***************************************************************************)
\* the value of (x % 0) and of every arithmetic on it
NaN == -1

\* (a % n) of JavaScript for a >= 0
JsMod(a, n) == IF a = NaN \/ n = 0 THEN NaN ELSE a % n

\* AlbumPage is mounted for the App variant
AlbumPageMounted ==
    variant = "App" /\ AppAlbumPageMounted(currentPage, authReady)

\* AlbumPage got past `if (isLoading)` and `if (!album)` and draws the grid
PhotoGridRendered ==
    AlbumPageMounted /\ ~isLoading /\ CurrentAlbum # NoAlbum

\* {lightboxOpen && photos.length > 0 && (...)}
LightboxRendered ==
    PhotoGridRendered /\ lightboxOpen /\ Len(photos) > 0

\* openLightbox(index), from the click on photo number index of the grid
OpenLightbox(index) ==
    /\ PhotoGridRendered
    /\ index \in 0..(Len(photos) - 1)
    /\ currentImageIndex' = index
    /\ lightboxOpen' = TRUE
    /\ UNCHANGED <<variant, initialAuthToken, authVars, appVars, listVars,
                   subVars, adminVars, storeVars>>

\* closeLightbox, from the overlay, the close button or the Escape key
CloseLightbox ==
    /\ AlbumPageMounted
    /\ lightboxOpen
    /\ lightboxOpen' = FALSE
    /\ UNCHANGED <<variant, initialAuthToken, authVars, appVars, listVars,
                   currentImageIndex, subVars, adminVars, storeVars>>

\* showNextImage, from the button of the lightbox or the ArrowRight key; the
\* key handler runs whenever lightboxOpen is set
ShowNextImage ==
    /\ AlbumPageMounted
    /\ lightboxOpen
    /\ currentImageIndex' =
         JsMod(IF currentImageIndex = NaN THEN NaN ELSE currentImageIndex + 1,
               Len(photos))
    /\ UNCHANGED <<variant, initialAuthToken, authVars, appVars, listVars,
                   lightboxOpen, subVars, adminVars, storeVars>>

\* showPrevImage, from the button of the lightbox or the ArrowLeft key
ShowPrevImage ==
    /\ AlbumPageMounted
    /\ lightboxOpen
    /\ currentImageIndex' =
         JsMod(IF currentImageIndex = NaN THEN NaN
               ELSE currentImageIndex - 1 + Len(photos),
               Len(photos))
    /\ UNCHANGED <<variant, initialAuthToken, authVars, appVars, listVars,
                   lightboxOpen, subVars, adminVars, storeVars>>

(***************************************************************************)
(* Admin gate of App.jsx.                                                  *)
(***************************************************************************)
AdminPassword == "louisadmin123"
Passwords == {AdminPassword, "guess"}

\* App.handleAdminLogin(uid)
HandleAdminLogin(uid) ==
    /\ adminUID' = uid
    /\ userId' = uid
    /\ isAdmin' = TRUE
    /\ selectedAlbumId' = NoId
    /\ AppRender("admin_panel", TRUE, authReady)
    /\ AppEffects(authReady, NoId, isLoading)
    /\ ShowNotification("Admin login successful!", "success")

\* AdminLogin.handleSubmit
AdminLoginSubmit(password) ==
    /\ variant = "App"
    /\ authReady
    /\ currentPage = "admin_login"
    /\ password \in Passwords
    /\ IF password = AdminPassword
       THEN HandleAdminLogin(MockAdminUid)
       ELSE UNCHANGED <<adminUID, userId, isAdmin, selectedAlbumId, currentPage,
                        selectedAlbumForPhoto, isSubmittingAlbum,
                        isSubmittingPhoto, isDeleting, ops, listVars, subVars,
                        isLoading, notification, timers, lightboxVars>>
    /\ UNCHANGED <<variant, initialAuthToken, authVars, db, authReady, message,
                   storeVars>>

\* App.handleAdminLogout, from the Navbar
HandleAdminLogout ==
    /\ variant = "App"
    /\ isAdmin
    /\ adminUID' = NoUser
    /\ isAdmin' = FALSE
    /\ selectedAlbumId' = NoId
    /\ AppRender("home", FALSE, authReady)
    /\ AppEffects(authReady, NoId, isLoading)
    /\ ShowNotification("Logged out.", "success")
    /\ UNCHANGED <<variant, initialAuthToken, authVars, db, userId, authReady,
                   message, storeVars>>

(***************************************************************************)
(* Admin panel: AdminPanel of App.jsx, AdminPage of part_000.              *)
(***************************************************************************)
AppPanel == variant = "App" /\ AppPanelMounted(currentPage, isAdmin, authReady)
PartAdmin == variant = "Part" /\ authReady /\ currentPage = "admin"

\* a handler invocation slot that holds no running call
IsFree(o) == o.pc \in {"idle", "done"} /\ o.pending = <<>>
HasFreeOp == \E i \in OpIds : IsFree(ops[i])
FreeOp == CHOOSE i \in OpIds :
            IsFree(ops[i]) /\ \A j \in OpIds : IsFree(ops[j]) => i <= j

StartOp(kind, pc, target, name, url, ts) ==
    /\ HasFreeOp
    /\ ops' = [ops EXCEPT ![FreeOp] =
                 [IdleOp EXCEPT !.kind = kind, !.pc = pc, !.target = target,
                                !.name = name, !.url = url, !.ts = ts]]

\* the <select> of the Add Photo form
SetSelectedAlbumForPhoto(albumId) ==
    /\ AppPanel \/ PartAdmin
    /\ albumId \in {NoId} \cup IdsOf(Range(albums))
    /\ albumId # selectedAlbumForPhoto
    /\ selectedAlbumForPhoto' = albumId
    /\ UNCHANGED <<variant, lightboxVars, initialAuthToken, authVars, appVars, listVars,
                   subVars, isSubmittingAlbum, isSubmittingPhoto, isDeleting,
                   message, ops, storeVars>>

\* AdminPanel.handleCreateAlbum of App.jsx, up to its first await
HandleCreateAlbum(name, url) ==
    /\ AppPanel
    /\ ~isSubmittingAlbum
    /\ IF ~Truthy(Trim(name)) \/ ~Truthy(Trim(url))
       THEN /\ ShowNotification("Album name and cover URL are required.",
                                "error")
            /\ UNCHANGED <<isSubmittingAlbum, ops>>
       ELSE IF userId = NoUser
       THEN /\ ShowNotification("User not authenticated. Cannot create album.",
                                "error")
            /\ UNCHANGED <<isSubmittingAlbum, ops>>
       ELSE /\ isSubmittingAlbum' = TRUE
            /\ StartOp("createAlbum", "addDoc", NoId, name, url, clock)
            /\ UNCHANGED <<notification, timers>>
    /\ UNCHANGED <<variant, lightboxVars, initialAuthToken, authVars, db, userId, authReady,
                   isLoading, isAdmin, adminUID, currentPage, selectedAlbumId,
                   listVars, subVars, selectedAlbumForPhoto, isSubmittingPhoto,
                   isDeleting, message, storeVars>>

\* a handler that validates the fields but does not test db
HandleAddAlbumNoDbCheck(name, url) ==
    /\ PartAdmin
    /\ IF ~Truthy(Trim(name)) \/ ~Truthy(Trim(url))
       THEN /\ message' = "Album name and thumbnail URL are required."
            /\ UNCHANGED ops
       ELSE /\ StartOp("createAlbum", "addDoc", NoId, name, url, NoTime)
            /\ UNCHANGED message
    /\ UNCHANGED <<variant, lightboxVars, initialAuthToken, authVars, appVars, listVars,
                   subVars, selectedAlbumForPhoto, isSubmittingAlbum,
                   isSubmittingPhoto, isDeleting, storeVars>>

\* AdminPage.handleAddAlbum of part_000, up to its first await
HandleAddAlbum(name, url) ==
    /\ PartAdmin
    /\ IF ~db \/ ~Truthy(Trim(name)) \/ ~Truthy(Trim(url))
       THEN /\ message' = "Album name and thumbnail URL are required."
            /\ UNCHANGED ops
       ELSE /\ StartOp("createAlbum", "addDoc", NoId, name, url, NoTime)
            /\ UNCHANGED message
    /\ UNCHANGED <<variant, lightboxVars, initialAuthToken, authVars, appVars, listVars,
                   subVars, selectedAlbumForPhoto, isSubmittingAlbum,
                   isSubmittingPhoto, isDeleting, storeVars>>

\* a check of the photo form that looks at the URL only
PhotoFormInvalidUrlOnly(albumId, url) == ~Truthy(Trim(url))

\* !selectedAlbumForPhoto || !newPhotoUrl.trim()
PhotoFormInvalid(albumId, url) == albumId = NoId \/ ~Truthy(Trim(url))

\* AdminPanel.handleAddPhoto of App.jsx, up to its first await
HandleAddPhotoApp(url) ==
    /\ AppPanel
    /\ ~isSubmittingPhoto
    /\ IF PhotoFormInvalid(selectedAlbumForPhoto, url)
       THEN /\ ShowNotification(
                  "Please select an album and provide a photo URL.", "error")
            /\ UNCHANGED <<isSubmittingPhoto, ops>>
       ELSE IF userId = NoUser
       THEN /\ ShowNotification("User not authenticated. Cannot add photo.",
                                "error")
            /\ UNCHANGED <<isSubmittingPhoto, ops>>
       ELSE /\ isSubmittingPhoto' = TRUE
            /\ StartOp("addPhoto", "addDoc", selectedAlbumForPhoto, <<>>, url,
                       clock)
            /\ UNCHANGED <<notification, timers>>
    /\ UNCHANGED <<variant, lightboxVars, initialAuthToken, authVars, db, userId, authReady,
                   isLoading, isAdmin, adminUID, currentPage, selectedAlbumId,
                   listVars, subVars, selectedAlbumForPhoto, isSubmittingAlbum,
                   isDeleting, message, storeVars>>

\* AdminPage.handleAddPhoto of part_000, up to its first await
HandleAddPhotoPart(url) ==
    /\ PartAdmin
    /\ IF ~db \/ PhotoFormInvalid(selectedAlbumForPhoto, url)
       THEN /\ message' = "Please select an album and provide an image URL."
            /\ UNCHANGED ops
       ELSE /\ StartOp("addPhoto", "addDoc", selectedAlbumForPhoto, <<>>, url,
                       NoTime)
            /\ UNCHANGED message
    /\ UNCHANGED <<variant, lightboxVars, initialAuthToken, authVars, appVars, listVars,
                   subVars, selectedAlbumForPhoto, isSubmittingAlbum,
                   isSubmittingPhoto, isDeleting, storeVars>>

\* the record of a handler invocation that has ended: what it was called on,
\* how it ended and the deletes of its batch that are still in flight
Ended(o, ok, rest) ==
    [IdleOp EXCEPT !.kind = o.kind, !.pc = "done", !.target = o.target,
                   !.outcome = IF ok THEN "ok" ELSE "error",
                   !.failed = (o.failed \/ ~ok),
                   !.albumDeleteIssued = o.albumDeleteIssued,
                   !.pending = rest]

\* the rest of a handler after its last await: the notice it shows and the
\* in-progress flags it clears; the setters of an unmounted panel do nothing
Finish(i, kind, ok) ==
    LET o == ops[i]
        okText == CASE kind = "createAlbum" ->
                         IF variant = "App" THEN "Album created successfully!"
                         ELSE "Album added successfully!"
                    [] kind = "addPhoto" -> "Photo added successfully!"
                    [] kind = "deleteAlbum" ->
                         IF variant = "App"
                         THEN "Album and its photos deleted successfully!"
                         ELSE "Album and associated photos deleted successfully!"
                    [] OTHER -> "Photo deleted successfully!"
        errText == CASE kind = "createAlbum" ->
                          IF variant = "App" THEN "Error creating album"
                          ELSE "Error adding album"
                     [] kind = "addPhoto" -> "Error adding photo"
                     [] kind = "deleteAlbum" -> "Error deleting album"
                     [] OTHER -> "Error deleting photo"
    IN  IF variant = "App"
        THEN /\ IF ok THEN ShowNotification(okText, "success")
                ELSE ShowNotification(errText, "error")
             /\ isSubmittingAlbum' =
                  IF kind = "createAlbum" /\ ~o.detached THEN FALSE
                  ELSE isSubmittingAlbum
             /\ isSubmittingPhoto' =
                  IF kind = "addPhoto" /\ ~o.detached THEN FALSE
                  ELSE isSubmittingPhoto
             /\ isDeleting' =
                  IF kind \in {"deleteAlbum", "deletePhoto"} /\ ~o.detached
                  THEN NoId ELSE isDeleting
             /\ UNCHANGED message
        ELSE /\ message' = IF o.detached THEN message
                           ELSE IF ok THEN okText ELSE errText
             /\ UNCHANGED <<notification, timers, isSubmittingAlbum,
                            isSubmittingPhoto, isDeleting>>

\* a create handler that also puts the album it created into the list
CreateAlbumSettlesOptimistic(i, ok) ==
    /\ ops[i].kind = "createAlbum" /\ ops[i].pc = "addDoc"
    /\ IF ok
       THEN \E id \in AlbumIds \ usedAlbumIds :
              /\ StoreWrite(storeAlbums \cup
                              {[id |-> id,
                                ts |-> IF variant = "App" THEN ops[i].ts
                                       ELSE clock]},
                            storePhotos)
              /\ usedAlbumIds' = usedAlbumIds \cup {id}
              /\ albums' = <<[id |-> id,
                              ts |-> IF variant = "App" THEN ops[i].ts
                                     ELSE clock]>> \o albums
       ELSE UNCHANGED <<storeAlbums, storePhotos, usedAlbumIds, subVars, albums>>
    /\ Finish(i, "createAlbum", ok)
    /\ ops' = [ops EXCEPT ![i] = Ended(ops[i], ok, <<>>)]
    /\ UNCHANGED <<variant, lightboxVars, initialAuthToken, authVars, db, userId, authReady,
                   isLoading, isAdmin, adminUID, currentPage, selectedAlbumId,
                   photos, album, selectedAlbumForPhoto, usedPhotoIds, clock>>

\* addDoc of handleCreateAlbum / handleAddAlbum settles
CreateAlbumSettles(i, ok) ==
    /\ ops[i].kind = "createAlbum" /\ ops[i].pc = "addDoc"
    /\ IF ok
       THEN \E id \in AlbumIds \ usedAlbumIds :
              /\ StoreWrite(storeAlbums \cup
                              {[id |-> id,
                                ts |-> IF variant = "App" THEN ops[i].ts
                                       ELSE clock]},
                            storePhotos)
              /\ usedAlbumIds' = usedAlbumIds \cup {id}
       ELSE UNCHANGED <<storeAlbums, storePhotos, usedAlbumIds, subVars>>
    /\ Finish(i, "createAlbum", ok)
    /\ ops' = [ops EXCEPT ![i] = Ended(ops[i], ok, <<>>)]
    /\ UNCHANGED <<variant, lightboxVars, initialAuthToken, authVars, db, userId, authReady,
                   isLoading, isAdmin, adminUID, currentPage, selectedAlbumId,
                   listVars, selectedAlbumForPhoto, usedPhotoIds, clock>>

\* addDoc of handleAddPhoto settles
AddPhotoSettles(i, ok) ==
    /\ ops[i].kind = "addPhoto" /\ ops[i].pc = "addDoc"
    /\ IF ok
       THEN \E id \in PhotoIds \ usedPhotoIds :
              /\ StoreWrite(storeAlbums,
                            storePhotos \cup
                              {[id |-> id, albumId |-> ops[i].target,
                                ts |-> IF variant = "App" THEN ops[i].ts
                                       ELSE clock]})
              /\ usedPhotoIds' = usedPhotoIds \cup {id}
       ELSE UNCHANGED <<storeAlbums, storePhotos, usedPhotoIds, subVars>>
    /\ Finish(i, "addPhoto", ok)
    /\ ops' = [ops EXCEPT ![i] = Ended(ops[i], ok, <<>>)]
    /\ UNCHANGED <<variant, lightboxVars, initialAuthToken, authVars, db, userId, authReady,
                   isLoading, isAdmin, adminUID, currentPage, selectedAlbumId,
                   listVars, selectedAlbumForPhoto, usedAlbumIds, clock>>

\* ids of a sequence of documents, in order
IdSeq(docs) == [k \in 1..Len(docs) |-> docs[k].id]

\* a handler that marks the album before it asks for confirmation
HandleDeleteAlbumMarksFirst(albumId, confirmed) ==
    /\ \/ AppPanel /\ isDeleting # albumId
       \/ PartAdmin /\ db
    /\ albumId \in IdsOf(Range(albums))
    /\ isDeleting' = IF variant = "App" THEN albumId ELSE isDeleting
    /\ IF confirmed
       THEN StartOp("deleteAlbum", "getDocs", albumId, <<>>, <<>>, NoTime)
       ELSE UNCHANGED ops
    /\ UNCHANGED <<variant, lightboxVars, initialAuthToken, authVars, appVars,
                   listVars, subVars, selectedAlbumForPhoto, isSubmittingAlbum,
                   isSubmittingPhoto, message, storeVars>>

\* handleDeleteAlbum(albumId), up to its first await; confirmed is the answer
\* to window.confirm
HandleDeleteAlbum(albumId, confirmed) ==
    /\ \/ AppPanel /\ isDeleting # albumId
       \/ PartAdmin /\ db
    /\ albumId \in IdsOf(Range(albums))
    /\ IF confirmed
       THEN /\ StartOp("deleteAlbum", "getDocs", albumId, <<>>, <<>>, NoTime)
            /\ isDeleting' = IF variant = "App" THEN albumId ELSE isDeleting
       ELSE UNCHANGED <<ops, isDeleting>>
    /\ UNCHANGED <<variant, lightboxVars, initialAuthToken, authVars, appVars, listVars,
                   subVars, selectedAlbumForPhoto, isSubmittingAlbum,
                   isSubmittingPhoto, message, storeVars>>

\* a handler that goes on to the album delete without awaiting the batch
AwaitNothing(pending) == "deleteDoc"

\* await Promise.all(deletePromises): the handler stays at the await while a
\* delete of the batch is unsettled, and goes on to the album delete once
\* none is
AwaitBatch(pending) == IF pending = <<>> THEN "deleteDoc" ELSE "batch"

\* getDocs(query(photos, where("albumId", "==", albumId))) settles; on success
\* one deleteDoc is issued per returned photo and the handler awaits
\* Promise.all, which resolves at once for an empty batch
GetDocsSettles(i, ok) ==
    /\ ops[i].kind = "deleteAlbum" /\ ops[i].pc = "getDocs"
    /\ IF ok
       THEN LET docs == SnapshotDocs(PhotosOf(storePhotos, ops[i].target))
            IN  /\ ops' = [ops EXCEPT
                     ![i].found = IdsOf(Range(docs)),
                     ![i].issued = IdSeq(docs),
                     ![i].pending = IdSeq(docs),
                     ![i].pc = AwaitBatch(IdSeq(docs)),
                     ![i].albumDeleteIssued =
                          (AwaitBatch(IdSeq(docs)) = "deleteDoc")]
                /\ UNCHANGED <<notification, timers, isSubmittingAlbum,
                               isSubmittingPhoto, isDeleting, message>>
       ELSE /\ Finish(i, "deleteAlbum", FALSE)
            /\ ops' = [ops EXCEPT ![i] = Ended(ops[i], FALSE, <<>>)]
    /\ UNCHANGED <<variant, lightboxVars, initialAuthToken, authVars, db, userId, authReady,
                   isLoading, isAdmin, adminUID, currentPage, selectedAlbumId,
                   listVars, subVars, selectedAlbumForPhoto, storeVars>>

\* one deleteDoc of the photo batch settles.  Promise.all rejects at the
\* first failure: the catch block runs and the handler ends, while the other
\* deletes of the batch stay in flight
PhotoDeleteSettles(i, k, ok) ==
    /\ ops[i].kind = "deleteAlbum"
    /\ k \in 1..Len(ops[i].pending)
    /\ LET p == ops[i].pending[k]
           rest == Remove(ops[i].pending, k)
       IN  /\ IF ok
              THEN StoreWrite(storeAlbums, {d \in storePhotos : d.id # p})
              ELSE UNCHANGED <<storeAlbums, storePhotos, subVars>>
           /\ IF ops[i].pc = "batch" /\ ~ok
              THEN /\ Finish(i, "deleteAlbum", FALSE)
                   /\ ops' = [ops EXCEPT ![i] = Ended(ops[i], FALSE, rest)]
              ELSE /\ ops' = [ops EXCEPT
                        ![i].pending = rest,
                        ![i].failed = (@ \/ ~ok),
                        ![i].pc = IF ops[i].pc = "batch"
                                  THEN AwaitBatch(rest) ELSE @,
                        ![i].albumDeleteIssued =
                             (@ \/ (/\ ops[i].pc = "batch"
                                    /\ AwaitBatch(rest) = "deleteDoc"))]
                   /\ UNCHANGED <<notification, timers, isSubmittingAlbum,
                                  isSubmittingPhoto, isDeleting, message>>
    /\ UNCHANGED <<variant, lightboxVars, initialAuthToken, authVars, db, userId, authReady,
                   isLoading, isAdmin, adminUID, currentPage, selectedAlbumId,
                   listVars, selectedAlbumForPhoto, usedAlbumIds, usedPhotoIds,
                   clock>>

\* deleteDoc(doc(db, albums, albumId)) settles
AlbumDeleteSettles(i, ok) ==
    /\ ops[i].kind = "deleteAlbum" /\ ops[i].pc = "deleteDoc"
    /\ IF ok
       THEN StoreWrite({d \in storeAlbums : d.id # ops[i].target}, storePhotos)
       ELSE UNCHANGED <<storeAlbums, storePhotos, subVars>>
    /\ Finish(i, "deleteAlbum", ok)
    /\ ops' = [ops EXCEPT ![i] = Ended(ops[i], ok, <<>>)]
    /\ UNCHANGED <<variant, lightboxVars, initialAuthToken, authVars, db, userId, authReady,
                   isLoading, isAdmin, adminUID, currentPage, selectedAlbumId,
                   listVars, selectedAlbumForPhoto, usedAlbumIds, usedPhotoIds,
                   clock>>

\* AdminPage.handleDeletePhoto(photoId) of part_000, up to its await.
\* (App.jsx defines handleDeletePhoto too, but nothing calls it.)
HandleDeletePhoto(photoId, confirmed) ==
    /\ PartAdmin /\ db
    /\ photoId \in IdsOf(Range(photos))
    /\ IF confirmed
       THEN StartOp("deletePhoto", "deleteDoc", photoId, <<>>, <<>>, NoTime)
       ELSE UNCHANGED ops
    /\ UNCHANGED <<variant, lightboxVars, initialAuthToken, authVars, appVars, listVars,
                   subVars, selectedAlbumForPhoto, isSubmittingAlbum,
                   isSubmittingPhoto, isDeleting, message, storeVars>>

\* deleteDoc(doc(db, photos, photoId)) of handleDeletePhoto settles
DeletePhotoSettles(i, ok) ==
    /\ ops[i].kind = "deletePhoto" /\ ops[i].pc = "deleteDoc"
    /\ IF ok
       THEN StoreWrite(storeAlbums, {d \in storePhotos : d.id # ops[i].target})
       ELSE UNCHANGED <<storeAlbums, storePhotos, subVars>>
    /\ Finish(i, "deletePhoto", ok)
    /\ ops' = [ops EXCEPT ![i] = Ended(ops[i], ok, <<>>)]
    /\ UNCHANGED <<variant, lightboxVars, initialAuthToken, authVars, db, userId, authReady,
                   isLoading, isAdmin, adminUID, currentPage, selectedAlbumId,
                   listVars, selectedAlbumForPhoto, usedAlbumIds, usedPhotoIds,
                   clock>>

(***************************************************************************)
(* The remote calls of other sessions running the same handlers, one call  *)
(* per step, and the passing of time.                                      *)
(***************************************************************************)
sessionVars == <<variant, initialAuthToken, authVars, appVars, listVars,
                 lightboxVars,
                 adminVars>>

\* addDoc(albums, ...) of another session; a document written by the other
\* variant carries no field of the name this variant reads its time from
OtherCreateAlbum(stamped) ==
    /\ \E id \in AlbumIds \ usedAlbumIds :
         /\ StoreWrite(storeAlbums \cup
                         {[id |-> id,
                           ts |-> IF stamped THEN clock ELSE NoTime]},
                       storePhotos)
         /\ usedAlbumIds' = usedAlbumIds \cup {id}
    /\ UNCHANGED <<sessionVars, usedPhotoIds, clock>>

\* addDoc(photos, ...) of another session
OtherAddPhoto(albumId, stamped) ==
    /\ albumId \in usedAlbumIds
    /\ \E id \in PhotoIds \ usedPhotoIds :
         /\ StoreWrite(storeAlbums,
                       storePhotos \cup
                         {[id |-> id, albumId |-> albumId,
                           ts |-> IF stamped THEN clock ELSE NoTime]})
         /\ usedPhotoIds' = usedPhotoIds \cup {id}
    /\ UNCHANGED <<sessionVars, usedAlbumIds, clock>>

\* deleteDoc(doc(db, albums, albumId)) of another session
OtherDeleteAlbum(albumId) ==
    /\ albumId \in IdsOf(storeAlbums)
    /\ StoreWrite({d \in storeAlbums : d.id # albumId}, storePhotos)
    /\ UNCHANGED <<sessionVars, usedAlbumIds, usedPhotoIds, clock>>

\* deleteDoc(doc(db, photos, photoId)) of another session
OtherDeletePhoto(photoId) ==
    /\ photoId \in IdsOf(storePhotos)
    /\ StoreWrite(storeAlbums, {d \in storePhotos : d.id # photoId})
    /\ UNCHANGED <<sessionVars, usedAlbumIds, usedPhotoIds, clock>>

\* new Date() / serverTimestamp() advance
Tick ==
    /\ clock < MaxTime
    /\ clock' = clock + 1
    /\ UNCHANGED <<sessionVars, subVars, storeAlbums, storePhotos,
                   usedAlbumIds, usedPhotoIds>>

(***************************************************************************)
(* Specifications.                                                         *)
(***************************************************************************)
AuthNext ==
    \/ AuthCallbackUser
    \/ AuthCallbackNoUser
    \/ \E i \in 1..2, ok \in BOOLEAN : SignInSettles(i, ok)
    \/ \E i \in 1..2 : AuthCallbackResumes(i)
    \/ HandleLogout
    \/ \E ok \in BOOLEAN : SignOutSettles(ok)
    \/ \E ok \in BOOLEAN : LogoutSignInSettles(ok)

NavNext ==
    \/ \E page \in AppPages, albumId \in {NoId} \cup AlbumIds :
         NavigateTo(page, albumId)
    \/ \E page \in PartPages : SetCurrentPage(page)
    \/ \E albumId \in AlbumIds : HandleViewAlbum(albumId)

SnapshotNext ==
    \/ AlbumsSnapshot
    \/ PhotosSnapshot
    \/ AlbumSnapshot

GateNext ==
    \/ NotificationTimeout
    \/ \E password \in Passwords : AdminLoginSubmit(password)
    \/ HandleAdminLogout

ErrorNext ==
    \/ AlbumsError
    \/ PhotosError
    \/ AlbumError

\* the two forms of the admin panel
FormNext ==
    \/ \E albumId \in {NoId} \cup AlbumIds : SetSelectedAlbumForPhoto(albumId)
    \/ \E name \in Strings, url \in Strings : HandleCreateAlbum(name, url)
    \/ \E name \in Strings, url \in Strings : HandleAddAlbum(name, url)
    \/ \E url \in Strings : HandleAddPhotoApp(url)
    \/ \E url \in Strings : HandleAddPhotoPart(url)
    \/ \E i \in OpIds, ok \in BOOLEAN : CreateAlbumSettles(i, ok)
    \/ \E i \in OpIds, ok \in BOOLEAN : AddPhotoSettles(i, ok)

\* the delete buttons of the admin panel
DeleteNext ==
    \/ \E albumId \in AlbumIds, c \in BOOLEAN : HandleDeleteAlbum(albumId, c)
    \/ \E photoId \in PhotoIds, c \in BOOLEAN : HandleDeletePhoto(photoId, c)
    \/ \E i \in OpIds, ok \in BOOLEAN : GetDocsSettles(i, ok)
    \/ \E i \in OpIds, k \in 1..MaxPhotos, ok \in BOOLEAN :
         PhotoDeleteSettles(i, k, ok)
    \/ \E i \in OpIds, ok \in BOOLEAN : AlbumDeleteSettles(i, ok)
    \/ \E i \in OpIds, ok \in BOOLEAN : DeletePhotoSettles(i, ok)

AdminNext == FormNext \/ DeleteNext

StoreNext ==
    \/ \E stamped \in BOOLEAN : OtherCreateAlbum(stamped)
    \/ \E albumId \in AlbumIds, stamped \in BOOLEAN :
         OtherAddPhoto(albumId, stamped)
    \/ \E albumId \in AlbumIds : OtherDeleteAlbum(albumId)
    \/ \E photoId \in PhotoIds : OtherDeletePhoto(photoId)
    \/ Tick

\* the navigation of an administrator: between the home page and the panel
PanelNavNext ==
    \/ \E page \in {"home", "admin_login", "admin_panel"} :
         NavigateTo(page, NoId)
    \/ \E page \in {"home", "admin"} : SetCurrentPage(page)

\* opening an album from the home page
DetailNavNext ==
    \/ \E albumId \in AlbumIds : NavigateTo("album_detail", albumId)
    \/ \E albumId \in AlbumIds : HandleViewAlbum(albumId)

\* the lightbox of the album page
LightboxNext ==
    \/ \E index \in 0..(MaxPhotos - 1) : OpenLightbox(index)
    \/ CloseLightbox
    \/ ShowNextImage
    \/ ShowPrevImage

\* another session adds a photo while this one administers
RacingWriteNext == \E albumId \in AlbumIds : OtherAddPhoto(albumId, TRUE)

\* the session from its start: identity bootstrap, logout and the views, over
\* a store that does not change
AuthSpec == Init /\ [][AuthNext \/ NavNext \/ SnapshotNext \/ GateNext]_vars

\* the steps of the identity bootstrap that no user triggers: the listener
\* is called for each auth-state notification, each sign-in call settles and
\* the listener call that awaited it resumes
AuthProgress ==
    \/ AuthCallbackUser
    \/ AuthCallbackNoUser
    \/ \E i \in 1..2, ok \in BOOLEAN : SignInSettles(i, ok)
    \/ \E i \in 1..2 : AuthCallbackResumes(i)

\* the session from its start, where every pending notification is delivered
\* and every pending sign-in settles
AuthLiveSpec == AuthSpec /\ WF_vars(AuthProgress)

\* a session whose identity bootstrap has completed with a signed-in user,
\* showing the home page of an empty store: App.jsx has run the listener for
\* the user and then resumed the listener call that signed in; part_000 has
\* run the listener for the user
InitReady ==
    /\ variant \in {"App", "Part"}
    /\ initialAuthToken = "undefined"
    /\ storeAlbums = {}
    /\ storePhotos = {}
    /\ usedAlbumIds = {}
    /\ usedPhotoIds = {}
    /\ clock = 1
    /\ db = TRUE
    /\ authUser = 2
    /\ authEvents = <<>>
    /\ nextUid = 3
    /\ authCb = <<>>
    /\ logout = [pc |-> "idle", count |-> 0]
    /\ userId = IF variant = "App" THEN NoUser ELSE 2
    /\ authReady = TRUE
    /\ isLoading = FALSE
    /\ isAdmin = FALSE
    /\ adminUID = NoUser
    /\ notification = NoNotification
    /\ timers = 0
    /\ currentPage = "home"
    /\ selectedAlbumId = NoId
    /\ albums = <<>>
    /\ photos = <<>>
    /\ album = NoAlbum
    /\ lightboxOpen = FALSE
    /\ currentImageIndex = 0
    /\ albumsSub = Subscribed(NoId, SnapshotDocs(storeAlbums))
    /\ photosSub = NoSub
    /\ albumSub = NoSub
    /\ selectedAlbumForPhoto = NoId
    /\ isSubmittingAlbum = FALSE
    /\ isSubmittingPhoto = FALSE
    /\ isDeleting = NoId
    /\ message = ""
    /\ ops = [i \in OpIds |-> IdleOp]

\* the views of a ready session over a store that other sessions write
SyncSpec == InitReady /\ [][NavNext \/ SnapshotNext \/ StoreNext]_vars

\* the album page of a ready session over a store that other sessions write
LightboxSpec ==
    InitReady /\ [][NavNext \/ SnapshotNext \/ StoreNext \/ LightboxNext]_vars

\* the forms of the admin panel of a ready session
FormSpec ==
    InitReady /\ [][PanelNavNext \/ AlbumsSnapshot \/ PhotosSnapshot
                      \/ GateNext \/ FormNext]_vars

\* the create-album form of the admin panel
CreateNext ==
    \/ \E name \in Strings, url \in Strings : HandleCreateAlbum(name, url)
    \/ \E name \in Strings, url \in Strings : HandleAddAlbum(name, url)
    \/ \E i \in OpIds, ok \in BOOLEAN : CreateAlbumSettles(i, ok)

\* a ready session in which remote calls fail: logout and the sign-in that
\* follows it, the subscriptions, the create-album form of the admin panel
ErrorSpec ==
    InitReady /\ [][AuthNext \/ PanelNavNext \/ DetailNavNext \/ SnapshotNext
                      \/ ErrorNext \/ GateNext \/ CreateNext]_vars

\* the views of a ready session over a store that other sessions write and
\* that may end a subscription with an error
CancelSpec ==
    InitReady /\ [][NavNext \/ SnapshotNext \/ ErrorNext \/ StoreNext]_vars

\* the session from its start with the admin gate and the create-album form
BootSpec ==
    Init /\ [][AuthNext \/ PanelNavNext \/ GateNext \/ AlbumsSnapshot
                 \/ PhotosSnapshot \/ CreateNext]_vars

\* the steps of the scenario "create an album, add a photo to it, delete
\* the album", every remote call succeeding: the admin gate, the three
\* handlers and the settling of their remote calls, navigation to the panel
\* and to an album page, the snapshot callbacks
ScenarioNext ==
    \/ NotificationTimeout
    \/ AdminLoginSubmit(AdminPassword)
    \/ PanelNavNext
    \/ DetailNavNext
    \/ SnapshotNext
    \/ \E name \in Strings, url \in Strings : HandleCreateAlbum(name, url)
    \/ \E name \in Strings, url \in Strings : HandleAddAlbum(name, url)
    \/ \E i \in OpIds : CreateAlbumSettles(i, TRUE)
    \/ \E albumId \in {NoId} \cup AlbumIds : SetSelectedAlbumForPhoto(albumId)
    \/ \E url \in Strings : HandleAddPhotoApp(url)
    \/ \E url \in Strings : HandleAddPhotoPart(url)
    \/ \E i \in OpIds : AddPhotoSettles(i, TRUE)
    \/ \E albumId \in AlbumIds, c \in BOOLEAN : HandleDeleteAlbum(albumId, c)
    \/ \E i \in OpIds : GetDocsSettles(i, TRUE)
    \/ \E i \in OpIds, k \in 1..MaxPhotos : PhotoDeleteSettles(i, k, TRUE)
    \/ \E i \in OpIds : AlbumDeleteSettles(i, TRUE)

\* the scenario in a ready session over an empty store; the store delivers
\* every snapshot it pushed to a subscription that stays open
ScenarioSpec ==
    /\ InitReady /\ [][ScenarioNext]_vars
    /\ WF_vars(AlbumsSnapshot) /\ WF_vars(PhotosSnapshot)
    /\ WF_vars(AlbumSnapshot)

\* the admin panel of a ready session
AdminSpec ==
    InitReady /\ [][PanelNavNext \/ AlbumsSnapshot \/ PhotosSnapshot
                      \/ GateNext \/ AdminNext \/ RacingWriteNext]_vars

\* the admin panel and the album page of a ready session
FrameSpec ==
    InitReady /\ [][PanelNavNext \/ DetailNavNext \/ SnapshotNext \/ GateNext
                      \/ AdminNext]_vars

(***************************************************************************)
(* Properties.                                                             *)
(***************************************************************************)
AnySubscriptionLive ==
    \/ albumsSub.status = "live"
    \/ photosSub.status = "live"
    \/ albumSub.status = "live"

\* C1: no data subscription (albums, single album, photos by album) is live
\* in a state where no identity has been established: whenever a
\* subscription is live, userId is non-null.
C1_SubscribedOnlyWithIdentity == AnySubscriptionLive => userId # NoUser

\* C2: once every snapshot the store pushed has been delivered, the
\* subscribed album list holds exactly the albums of the store: no deleted
\* album, no missing album, no id twice.
C2_AlbumListMatchesStore ==
    (albumsSub.status = "live" /\ albumsSub.queue = <<>>)
        => /\ Range(albums) = storeAlbums
           /\ Len(albums) = Cardinality(storeAlbums)

\* the list has caught up with a store in which one album was created and
\* kept and another was created and deleted
C2_Witness ==
    /\ albumsSub.status = "live" /\ albumsSub.queue = <<>>
    /\ Len(albums) = 1
    /\ Cardinality(usedAlbumIds) = 2

\* C3: the album list is ordered by creation time, newest first, and the
\* albums without a creation time come after all those that have one.
C3_AlbumsNewestFirst ==
    \A j, k \in 1..Len(albums) : j < k => albums[j].ts >= albums[k].ts


\* a form field that holds nothing but blanks
IsBlank(s) == \A k \in 1..Len(s) : s[k] = " "

\* C4: createAlbum called with an empty or whitespace-only name, or with no
\* cover/thumbnail URL, issues no remote create call (no handler invocation
\* starts and the store is not written) and sets the validation message in
\* the same step.
C4_CreateAlbumValidated ==
    [][\A name \in Strings, url \in Strings :
          ((IsBlank(name) \/ IsBlank(url))
             /\ (HandleCreateAlbum(name, url) \/ HandleAddAlbum(name, url)))
          => /\ ops' = ops
             /\ UNCHANGED storeVars
             /\ IF variant = "App"
                THEN notification' =
                       [message |-> "Album name and cover URL are required.",
                        type |-> "error"]
                ELSE message' = "Album name and thumbnail URL are required."]_vars

\* the validation message of the album form is showing and no call was made
C4_Witness ==
    /\ \/ notification.message = "Album name and cover URL are required."
       \/ message = "Album name and thumbnail URL are required."
    /\ \A i \in OpIds : ops[i].pc = "idle"
    /\ storeAlbums = {}

\* C5: addPhoto issues a remote create call only when an album is selected
\* and the image URL is not empty; called otherwise it starts no call, writes
\* nothing and sets the validation message.
C5_AddPhotoValidated ==
    [][/\ \A url \in Strings :
            ((selectedAlbumForPhoto = NoId \/ IsBlank(url))
               /\ (HandleAddPhotoApp(url) \/ HandleAddPhotoPart(url)))
            => /\ ops' = ops
               /\ UNCHANGED storeVars
               /\ IF variant = "App"
                  THEN notification' =
                         [message |->
                            "Please select an album and provide a photo URL.",
                          type |-> "error"]
                  ELSE message' =
                         "Please select an album and provide an image URL."
       /\ \A i \in OpIds :
            (ops[i].pc \in {"idle", "done"} /\ ops'[i].kind = "addPhoto"
               /\ ops'[i].pc = "addDoc")
            => /\ selectedAlbumForPhoto # NoId
               /\ ops'[i].target = selectedAlbumForPhoto
               /\ ~IsBlank(ops'[i].url)]_vars

\* an add-photo call is in flight for the selected album
C5_Witness ==
    \E i \in OpIds :
        /\ ops[i].kind = "addPhoto" /\ ops[i].pc = "addDoc"
        /\ ops[i].target # NoId
        /\ ops[i].url = <<"a">>

\* a snapshot callback took the next pushed snapshot and stored its documents
AlbumsDelivered ==
    /\ albumsSub.status = "live" /\ albumsSub.queue # <<>>
    /\ albumsSub' = [albumsSub EXCEPT !.queue = Tail(@)]
    /\ Len(albums') = Len(Head(albumsSub.queue))
    /\ Range(albums') = Range(Head(albumsSub.queue))

PhotosDelivered ==
    /\ photosSub.status = "live" /\ photosSub.queue # <<>>
    /\ photosSub' = [photosSub EXCEPT !.queue = Tail(@)]
    /\ Len(photos') = Len(Head(photosSub.queue))
    /\ Range(photos') = Range(Head(photosSub.queue))

\* part_000: the page is replaced; the lists of the page that mounts are new
\* state, which starts empty
PageReplaced ==
    /\ variant = "Part" /\ currentPage' # currentPage
    /\ albums' = <<>> /\ photos' = <<>>

\* C6 as stated: the album list and the photo list of a mounted view change
\* only in a step of a snapshot callback; handlers, navigation and every
\* other step leave them unchanged.
C6_ListsChangeOnlyBySnapshot ==
    [][/\ albums' # albums => AlbumsDelivered \/ PageReplaced
       /\ photos' # photos => PhotosDelivered \/ PageReplaced]_vars

\* App.jsx: the Fetch Photos effect re-runs with no album selected
PhotosEffectCleared ==
    /\ variant = "App"
    /\ selectedAlbumId # NoId /\ selectedAlbumId' = NoId
    /\ photos' = <<>>

\* C6, amended: the album list changes only in a step of its snapshot
\* callback; the photo list changes only in a step of its snapshot callback
\* or when the Fetch Photos effect of App.jsx empties it because the selected
\* album was cleared.  The admin handlers and the steps of their remote calls
\* never change a list.
C6_ListsChangeBySnapshotOrReset ==
    [][/\ albums' # albums => AlbumsDelivered \/ PageReplaced
       /\ photos' # photos
            => PhotosDelivered \/ PageReplaced \/ PhotosEffectCleared]_vars

\* the list shows an album the create handler of this session wrote, after
\* the handler ended and the snapshot was delivered
C6_Witness ==
    /\ \E i \in OpIds :
         /\ ops[i].kind = "createAlbum" /\ ops[i].pc = "done"
         /\ ops[i].outcome = "ok"
    /\ Len(albums) = 1
    /\ Range(albums) = storeAlbums
    /\ albumsSub.queue = <<>>

\* C7: in deleteAlbum the album delete is issued only after the photo query
\* has returned and every photo delete of the batch has settled, and the
\* batch holds exactly one delete per photo the query returned.
C7_AlbumDeleteAfterBatch ==
    /\ [](\A i \in OpIds :
            /\ ops[i].albumDeleteIssued
                 => /\ ops[i].pc \in {"deleteDoc", "done"}
                    /\ ops[i].pending = <<>>
            /\ ops[i].pc \in {"batch", "deleteDoc"}
                 => /\ Range(ops[i].issued) = ops[i].found
                    /\ Len(ops[i].issued) = Cardinality(ops[i].found)
                    /\ Range(ops[i].pending) \subseteq ops[i].found)
    /\ [][\A i \in OpIds :
            /\ (ops[i].pc = "getDocs" /\ ops'[i].pc \in {"batch", "deleteDoc"})
                 => ops'[i].found =
                      IdsOf(PhotosOf(storePhotos, ops[i].target))
            /\ (ops[i].pc = "batch" /\ ops'[i].pc \in {"batch", "deleteDoc"})
                 => /\ ops'[i].issued = ops[i].issued
                    /\ ops'[i].found = ops[i].found]_vars

\* the album delete is in flight after a batch of two photo deletes settled
C7_Witness ==
    \E i \in OpIds :
        /\ ops[i].kind = "deleteAlbum" /\ ops[i].pc = "deleteDoc"
        /\ ops[i].albumDeleteIssued
        /\ Cardinality(ops[i].found) = 2

\* C8: when deleteAlbum(X) ends with every delete it issued having
\* succeeded, the store holds no photo whose albumId is X and no album X,
\* whatever creates and add-photo calls of this or another session ran in
\* between.
C8_CascadeComplete ==
    [][\A i \in OpIds :
          (/\ ops[i].kind = "deleteAlbum" /\ ops[i].pc = "deleteDoc"
           /\ ops'[i].pc = "done" /\ ops'[i].outcome = "ok")
          => /\ ops[i].target \notin IdsOf(storeAlbums')
             /\ PhotosOf(storePhotos', ops[i].target) = {}]_vars

\* C9: when a photo delete of the batch fails and the await raises, the
\* album delete is never issued, the album stays in the store, an error
\* message is shown and the photo deletes that succeeded are not undone.
C9_BatchFailureAborts ==
    [][\A i \in OpIds :
        /\ (ops'[i].albumDeleteIssued /\ ~ops[i].albumDeleteIssued)
             => /\ ops[i].pc \in {"getDocs", "batch"}
                /\ ops'[i].pending = <<>>
                /\ ~ops'[i].failed
        /\ (ops[i].kind = "deleteAlbum" /\ ops[i].pc = "batch"
             /\ ops'[i].pc = "done")
          => /\ ops'[i].outcome = "error"
             /\ ~ops'[i].albumDeleteIssued
             /\ storeAlbums' = storeAlbums
             /\ storePhotos' = storePhotos
             /\ IF variant = "App"
                THEN notification' =
                       [message |-> "Error deleting album", type |-> "error"]
                ELSE message' = "Error deleting album"]_vars


\* the detail view is open and has been handed every snapshot pushed to it
DetailViewCaughtUp ==
    \/ /\ variant = "App" /\ currentPage = "album_detail"
       /\ albumsSub.status = "live" /\ albumsSub.queue = <<>>
    \/ /\ variant = "Part" /\ currentPage = "albumDetail"
       /\ albumSub.status = "live" /\ albumSub.queue = <<>>

PhotosByAlbumCaughtUp ==
    /\ photosSub.status = "live" /\ photosSub.key # NoId
    /\ photosSub.queue = <<>>

\* C12: after every photos-by-album snapshot the photo list for album X
\* holds exactly the store's photos whose albumId is X, each once, ordered
\* by upload time, newest first.
C12_PhotoListMatchesAlbum ==
    PhotosByAlbumCaughtUp
        => /\ Range(photos) = PhotosOf(storePhotos, photosSub.key)
           /\ Len(photos) = Cardinality(PhotosOf(storePhotos, photosSub.key))
           /\ \A j, k \in 1..Len(photos) :
                 j < k => photos[j].ts >= photos[k].ts

\* the part of C12 that holds in both variants: the content of the list
C12_PhotoListContent ==
    PhotosByAlbumCaughtUp
        => /\ Range(photos) = PhotosOf(storePhotos, photosSub.key)
           /\ Len(photos) = Cardinality(PhotosOf(storePhotos, photosSub.key))

\* the ordering of C12 in part_000, whose callback sorts
C12_PartPhotosNewestFirst ==
    (variant = "Part" /\ PhotosByAlbumCaughtUp)
        => \A j, k \in 1..Len(photos) : j < k => photos[j].ts >= photos[k].ts

C14_ReadyImpliesIdentity == (db /\ authReady) => userId # NoUser

\* the part of C14 that holds: in part_000, once Firebase has initialised,
\* a ready session has an identity, the local one after a failed sign-in
C14_PartReadyImpliesIdentity ==
    (variant = "Part" /\ db /\ authReady) => userId # NoUser

\* the sign-in call of C14: a listener call that suspends awaits the token
\* sign-in when a token is supplied and the anonymous one when none is
\* defined
C14_TokenWhenSupplied ==
    \A i \in 1..Len(authCb) :
        /\ initialAuthToken = "valid" => authCb[i].method = "token"
        /\ initialAuthToken = "undefined" => authCb[i].method = "anonymous"

\* C15: a session has one stable identity: once userId is non-null, no
\* step (admin login, logout, later auth-state notification) changes it.
C15_IdentityStable == [][userId # NoUser => userId' = userId]_vars

\* C15 for the steps of the listener alone in App.jsx: admin login aside,
\* an identity the listener has set is not changed
C15_AppListenerKeepsIdentity ==
    [][(/\ variant = "App" /\ userId # NoUser
        /\ ~(\E password \in Passwords : AdminLoginSubmit(password)))
          => userId' = userId]_vars

\* C15 for part_000 up to the first logout
C15_PartStableUntilLogout ==
    [][(variant = "Part" /\ userId # NoUser /\ logout.count = 0)
          => userId' = userId]_vars

\* a remote call of this session fails and its call site handles the
\* failure: the listener resumes after a rejected sign-in, the sign-out or
\* the sign-in of handleLogout rejects, a subscription reports an error, a
\* handler of the admin panel ends in its catch block
RemoteCallFails ==
    \/ \E i \in 1..Len(authCb) :
          authCb[i].pc = "resumeErr" /\ AuthCallbackResumes(i)
    \/ SignOutSettles(FALSE)
    \/ LogoutSignInSettles(FALSE)
    \/ AlbumsError \/ PhotosError \/ AlbumError
    \/ \E i \in OpIds :
          /\ ops[i].pc \notin {"idle", "done"}
          /\ ops'[i].pc = "done" /\ ops'[i].outcome = "error"

\* the notification of App.jsx or the message of part_000's AdminPage shows
\* a text
NoticeShown ==
    IF variant = "App" THEN notification.message # "" ELSE message # ""

\* C16: every failure of a remote call (sign-in, subscription error,
\* create, add-photo, delete) is caught and turned into a user-visible
\* notice: in the state after the failure is handled the notification or
\* message is non-empty.
C16_FailureShowsNotice == [][RemoteCallFails => NoticeShown']_vars

\* the part of C16 that holds: App.jsx shows a notification at every one of
\* its call sites
C16_AppFailureShowsNotice ==
    [][(variant = "App" /\ RemoteCallFails) => NoticeShown']_vars

\* the view that opened the albums subscription is mounted
AlbumsViewCurrent ==
    IF variant = "App" THEN authReady
    ELSE currentPage \in {"home", "gallery", "admin"}

\* the view that opened the photos subscription is mounted and the
\* subscription is the one for its current key
PhotosViewCurrent ==
    IF variant = "App"
    THEN selectedAlbumId # NoId /\ photosSub.key = selectedAlbumId
    ELSE \/ /\ currentPage = "albumDetail"
            /\ selectedAlbumId # NoId /\ photosSub.key = selectedAlbumId
         \/ currentPage = "admin" /\ photosSub.key = NoId

\* the album page of part_000 is mounted for the album of the subscription
AlbumViewCurrent ==
    /\ variant = "Part" /\ currentPage = "albumDetail"
    /\ selectedAlbumId # NoId /\ albumSub.key = selectedAlbumId

\* C17: a cancelled subscription delivers nothing: every step in which a
\* snapshot or error callback changes the album list, the photo list, the
\* album record or the current page belongs to a subscription that is live,
\* has that snapshot pending, and was opened by the view now mounted for its
\* current key; a photo list written for key X holds photos of X only.
C17_CancelledIsTerminal ==
    [][/\ (albums' # albums /\ ~PageReplaced)
          => AlbumsDelivered /\ AlbumsViewCurrent
       /\ (photos' # photos /\ ~PageReplaced /\ ~PhotosEffectCleared)
          => /\ PhotosDelivered /\ PhotosViewCurrent
             /\ photosSub.key # NoId
                  => \A k \in 1..Len(photos') :
                         photos'[k].albumId = photosSub.key
       /\ (album' # album /\ ~PageReplaced)
          => /\ albumSub.status = "live" /\ albumSub.queue # <<>>
             /\ album' = Head(albumSub.queue)
             /\ AlbumViewCurrent
       /\ ((AlbumSnapshot \/ AlbumsSnapshot \/ PhotosSnapshot \/ AlbumsError
             \/ PhotosError \/ AlbumError) /\ currentPage' # currentPage)
          => /\ AlbumViewCurrent
             /\ albumSub.status = "live" /\ albumSub.queue # <<>>]_vars

\* App.jsx is back on the albums page after an album page was open: the
\* photos subscription is cancelled, other sessions have since added photos,
\* and the photo list is empty
C17_Witness ==
    /\ variant = "App" /\ currentPage = "albums"
    /\ photosSub.status = "none"
    /\ Cardinality(storePhotos) = MaxPhotos
    /\ photos = <<>>
    /\ Len(albums) > 0

CreateWithoutIdentity(name, url) ==
    /\ HandleCreateAlbum(name, url) \/ HandleAddAlbum(name, url)
    /\ ~IsBlank(name) /\ ~IsBlank(url)
    /\ userId = NoUser

\* C19 as stated: createAlbum with valid fields while userId is null fails
\* with a remote error: the create call is made, the store rejects it, no
\* album is added and an error message is shown.
C19_CreateWithoutIdentityRejectedRemotely ==
    [][\A name, url \in Strings :
         CreateWithoutIdentity(name, url)
           => /\ \E i \in OpIds : /\ ops'[i] # ops[i]
                                   /\ ops'[i].kind = "createAlbum"
                                   /\ ops'[i].pc = "addDoc"
              /\ storeAlbums' = storeAlbums]_vars

\* C19, amended: createAlbum with valid fields while userId is null makes
\* no remote call and adds no album.  The admin panel of App.jsx is never
\* mounted with userId null, and its handler tests userId before the call.
\* The AdminPage of part_000 has userId null only when Firebase failed to
\* initialise; its handler then stops at the db test and shows the
\* required-fields message.
C19_CreateWithoutIdentityStopsLocally ==
    /\ [](AppPanel => userId # NoUser)
    /\ []((PartAdmin /\ userId = NoUser) => ~db)
    /\ [][\A name, url \in Strings :
            CreateWithoutIdentity(name, url)
              => /\ ops' = ops
                 /\ storeAlbums' = storeAlbums
                 /\ IF variant = "App"
                    THEN notification' =
                           [message |->
                              "User not authenticated. Cannot create album.",
                            type |-> "error"]
                    ELSE message' =
                           "Album name and thumbnail URL are required."]_vars

\* the AdminPage of part_000 after Firebase failed to initialise: no
\* identity, and the create form has answered with its message
C19_Witness ==
    /\ variant = "Part" /\ ~db /\ authReady
    /\ currentPage = "admin"
    /\ userId = NoUser
    /\ message = "Album name and thumbnail URL are required."
    /\ \A i \in OpIds : ops[i].pc = "idle"

\* the album with id a stands before the album with id b in the list
Before(list, a, b) ==
    \E j, k \in 1..Len(list) : j < k /\ list[j].id = a /\ list[k].id = b

\* the list the albums callback stores for the snapshot pushed last
ListOfLastSnapshot(sub) == AlbumsOfSnapshot(sub.queue[Len(sub.queue)])

\* C20: two albums that have no timestamp compare equal under the
\* descending-time sort, and their relative order in the list follows their
\* creation order: when an album without timestamp is created while one
\* without timestamp exists, the list of the snapshot that reports the
\* creation shows the earlier album before the later one.
C20_TiesFollowCreationOrder ==
    [][\A o \in storeAlbums : \A n \in storeAlbums' \ storeAlbums :
         (/\ o \in storeAlbums' /\ o.ts = NoTime /\ n.ts = NoTime
          /\ albumsSub.status = "live" /\ albumsSub'.status = "live"
          /\ albumsSub'.queue # <<>>)
           => Before(ListOfLastSnapshot(albumsSub'), o.id, n.id)]_vars

\* C20 read the other way: the later album before the earlier one
C20_TiesFollowReverseCreationOrder ==
    [][\A o \in storeAlbums : \A n \in storeAlbums' \ storeAlbums :
         (/\ o \in storeAlbums' /\ o.ts = NoTime /\ n.ts = NoTime
          /\ albumsSub.status = "live" /\ albumsSub'.status = "live"
          /\ albumsSub'.queue # <<>>)
           => Before(ListOfLastSnapshot(albumsSub'), n.id, o.id)]_vars

\* the part of C20 that holds: albums without timestamp stand in the order
\* of their document ids, in every list and so after every later snapshot
C20_TiesKeepOrder ==
    \A j, k \in 1..Len(albums) :
        (j < k /\ albums[j].ts = NoTime /\ albums[k].ts = NoTime)
          => albums[j].id < albums[k].id

\* the last handler of the session was deleteAlbum(x) and it ended with
\* every remote call it made successful
DeleteAlbumSucceeded(x) ==
    \E i \in OpIds : /\ ops[i].kind = "deleteAlbum" /\ ops[i].pc = "done"
                      /\ ops[i].outcome = "ok" /\ ops[i].target = x

\* neither the album list nor the photo list shows a document of album x
NothingListedOf(x) ==
    /\ \A k \in 1..Len(albums) : albums[k].id # x
    /\ \A k \in 1..Len(photos) : photos[k].albumId # x

\* C21: after an album was created, a photo added to it and the album
\* deleted, all remote calls succeeding, the album list and the photo list
\* eventually hold no document of that album, provided the store delivers
\* its pushes (and unless the admin starts another operation first).
C21_DeletedAlbumDisappears ==
    \A x \in AlbumIds :
        DeleteAlbumSucceeded(x)
          ~> (NothingListedOf(x) \/ ~DeleteAlbumSucceeded(x))

\* the album page of App.jsx is open on the one album the session created,
\* whose photo and which were deleted by deleteAlbum; every snapshot has
\* been delivered and neither list shows a document of the album
C21_Witness ==
    \E x \in AlbumIds :
        /\ DeleteAlbumSucceeded(x) /\ NothingListedOf(x)
        /\ usedAlbumIds = {x} /\ usedPhotoIds # {}
        /\ storeAlbums = {} /\ storePhotos = {}
        /\ variant = "App" /\ currentPage = "album_detail"
        /\ selectedAlbumId = x
        /\ photosSub.status = "live" /\ photosSub.queue = <<>>
        /\ albumsSub.queue = <<>>

\* C22: in App.jsx, after the bootstrap sign-in succeeded, the listener call
\* that awaited the sign-in does not overwrite the uid the listener call for
\* the new user has stored: when it resumes with userId equal to the uid of
\* the signed-in user, userId keeps that value.
C22_ContinuationKeepsUid ==
    [][\A i \in 1..Len(authCb) :
         (/\ variant = "App"
          /\ authCb[i].pc = "resumeOk" /\ AuthCallbackResumes(i)
          /\ userId # NoUser /\ userId = authUser)
           => userId' = userId]_vars

\* the interleaving of C22 in which the claim's outcome is reached: the
\* listener call for the new user runs after the continuation
C22_UserCallbackLastSetsUid ==
    [][(variant = "App" /\ AuthCallbackUser) => userId' = authUser]_vars

C23_AddPhotoTargetsSelection ==
    [][\A i \in OpIds :
         (/\ ops[i].pc \in {"idle", "done"}
          /\ ops'[i].kind = "addPhoto" /\ ops'[i].pc = "addDoc")
           => /\ ops'[i].target = selectedAlbumForPhoto
              /\ selectedAlbumForPhoto # NoId]_vars

\* a deleteAlbum of App.jsx's admin panel has not yet returned
DeleteAlbumInFlight(i) ==
    /\ variant = "App"
    /\ ops[i].kind = "deleteAlbum" /\ ops[i].pc \notin {"idle", "done"}

\* C24: in App.jsx's admin panel, while a deleteAlbum for album X is in
\* flight the in-progress marker the panel shows equals X, so that X's
\* delete button stays disabled until that delete has completed.
C24_MarkerHeldWhileDeleting ==
    \A i \in OpIds :
        (AppPanel /\ DeleteAlbumInFlight(i)) => isDeleting = ops[i].target

\* C24 for a panel that stays mounted while the delete runs; it holds only
\* as long as no second delete starts meanwhile (MaxOps = 1): with two
\* handlers in flight the second setIsDeleting replaces the marker
C24_MarkerHeldWhileMounted ==
    \A i \in OpIds :
        (DeleteAlbumInFlight(i) /\ ~ops[i].detached)
          => isDeleting = ops[i].target

\* C25: in part_000's admin page an albums snapshot leaves the album chosen
\* in the Add Photo form unchanged as long as that album is still in the
\* list; the default (first album) is applied only while none is selected.
C25_SnapshotKeepsSelection ==
    [][(/\ PartAdmin /\ AlbumsSnapshot
        /\ selectedAlbumForPhoto # NoId
        /\ selectedAlbumForPhoto \in IdsOf(Range(albums')))
         => selectedAlbumForPhoto' = selectedAlbumForPhoto]_vars

\* what the albums callback does for C25: a non-empty snapshot selects its
\* first album, an empty one leaves the selection as it is
C25_SnapshotSelectsFirst ==
    [][(PartAdmin /\ AlbumsSnapshot)
         => selectedAlbumForPhoto' =
              IF albums' # <<>> THEN albums'[1].id
              ELSE selectedAlbumForPhoto]_vars

\* C26: whenever the lightbox of the album page is drawn, the current image
\* index names a photo of the list: 0 <= currentImageIndex < photos.length
C26_LightboxIndexValid ==
    LightboxRendered =>
        (currentImageIndex >= 0 /\ currentImageIndex < Len(photos))

\* the navigation of the lightbox wraps around the list it was drawn from
C26_NavigationWraps ==
    [][/\ (ShowNextImage /\ LightboxRendered /\ currentImageIndex \in 0..(Len(photos) - 1))
           => currentImageIndex' =
                IF currentImageIndex = Len(photos) - 1 THEN 0
                ELSE currentImageIndex + 1
       /\ (ShowPrevImage /\ LightboxRendered /\ currentImageIndex \in 0..(Len(photos) - 1))
           => currentImageIndex' =
                IF currentImageIndex = 0 THEN Len(photos) - 1
                ELSE currentImageIndex - 1]_vars

\* C27: a notification stays visible until the timer of its own
\* showNotification call fires.  Timers of equal delay fire in the order they
\* were started, so a timer that fires while a later one is pending belongs to
\* an earlier call and must leave the notification of the later call alone
C27_EarlierTimerKeepsLaterNotice ==
    [][(NotificationTimeout /\ timers > 1 /\ notification # NoNotification)
         => notification' = notification]_vars

\* every timer of showNotification clears whatever notification is shown
C27_EveryTimerClears ==
    [][NotificationTimeout => notification' = NoNotification]_vars

\* the handler invocation i of the mounted panel ends in this step
HandlerEnds(i, kind) ==
    /\ variant = "App"
    /\ ops[i].kind = kind
    /\ ops[i].pc \notin {"idle", "done"}
    /\ ~ops[i].detached
    /\ ops'[i].pc = "done"

\* C28: in the admin panel of App.jsx an in-progress flag is set only by its
\* handler, after the local validation (or the confirmation) has passed, and
\* it is clear again when the handler's remote call has completed, with
\* success or with failure
C28_FlagsFollowHandlers ==
    [][/\ (isSubmittingAlbum' /\ ~isSubmittingAlbum) =>
            \E name \in Strings, url \in Strings :
                /\ HandleCreateAlbum(name, url)
                /\ Truthy(Trim(name)) /\ Truthy(Trim(url))
                /\ userId # NoUser
       /\ (isSubmittingPhoto' /\ ~isSubmittingPhoto) =>
            \E url \in Strings :
                /\ HandleAddPhotoApp(url)
                /\ selectedAlbumForPhoto # NoId /\ Truthy(Trim(url))
                /\ userId # NoUser
       /\ (variant = "App" /\ isDeleting' # NoId /\ isDeleting' # isDeleting) =>
            HandleDeleteAlbum(isDeleting', TRUE)
       /\ \A i \in OpIds :
            /\ HandlerEnds(i, "createAlbum") => ~isSubmittingAlbum'
            /\ HandlerEnds(i, "addPhoto") => ~isSubmittingPhoto'
            /\ HandlerEnds(i, "deleteAlbum") => isDeleting' = NoId]_vars

\* a delete that failed has left the mounted panel with its marker cleared
C28_Witness ==
    /\ AppPanel
    /\ \E i \in OpIds :
        /\ ops[i].kind = "deleteAlbum" /\ ops[i].pc = "done"
        /\ ops[i].outcome = "error" /\ ~ops[i].detached
    /\ isDeleting = NoId
    /\ ~isSubmittingAlbum /\ ~isSubmittingPhoto

\* C29: App.jsx shows the admin panel only to an administrator.  The page is
\* admin_panel only while isAdmin is true, and a session that loses isAdmin on
\* that page is sent to admin_login; isAdmin becomes true only by the login
\* form with the matching password or by the auth listener for a user whose
\* uid equals the stored admin uid; the admin logout leaves isAdmin false and
\* the page home
C29_PanelOnlyForAdmin ==
    /\ [](variant = "App" /\ currentPage = "admin_panel" => isAdmin)
    /\ [][(variant = "App" /\ currentPage = "admin_panel" /\ ~isAdmin'
             /\ ~HandleAdminLogout)
            => currentPage' = "admin_login"]_vars
    /\ [][(~isAdmin /\ isAdmin') =>
            \/ AdminLoginSubmit(AdminPassword)
            \/ AuthCallbackUser /\ Head(authEvents) = adminUID]_vars
    /\ [][HandleAdminLogout => (~isAdmin' /\ currentPage' = "home")]_vars

\* the panel is mounted for the administrator who logged in with the password
C29_Witness ==
    /\ AppPanel
    /\ isAdmin
    /\ userId = MockAdminUid
    /\ adminUID = MockAdminUid

\* renderContent of App.jsx returns the spinner while isLoading && !authReady;
\* renderPage of part_000 returns "Loading application..." while !isAuthReady
LoadingScreen ==
    IF variant = "App" THEN isLoading /\ ~authReady ELSE ~authReady

====
